---- MODULE Spec2Model ----
(***************************************************************************)
(* State-machine model of the UrBackup tray monitor (urbackupgui/app.py):  *)
(* the App main window (startup, poll timer, tray menu, close and minimize *)
(* handling) and the StatusInfo widget that renders a status snapshot.     *)
(* Texts are modelled as the strings the code builds.                      *)
(***************************************************************************)
EXTENDS Integers, Sequences, FiniteSets, TLC

VARIABLES
    pc,           \* "start" | "constructed" | "running" | "exited"
    exit_code,    \* process exit status once pc = "exited"
    dialog,       \* title of the modal QMessageBox shown, or "none"
    window_icon,  \* key of the icon set with setWindowIcon, "absent" before
    tray_icon,    \* key of the QSystemTrayIcon's icon, "absent" before creation
    closing,      \* App.__closing
    visible,      \* the main window is shown
    minimized,    \* the main window is in the minimized window state
    timer_active, \* update_timer is running
    status_info,  \* the StatusInfo widget values, NoWidgets before creation
    polled,       \* value returned by the latest get_status() of App.update_status
    tray_seen,    \* argument of the latest App.update_tray call
    info_seen,    \* argument of the latest StatusInfo.update_status call
    trace         \* observable effects of the handler that ran last, in order

vars == <<pc, exit_code, dialog, window_icon, tray_icon, closing, visible,
          minimized, timer_active, status_info, polled, tray_seen, info_seen,
          trace>>

----------------------------------------------------------------------------
(* Values *)

\* Python's None, as returned by get_status and passed through the signal.
None == [is_none |-> TRUE]

\* Marker for "this slot has not been called yet" / "no poll has returned yet".
Unset == [unset |-> TRUE]

\* Marker for the StatusInfo widget before it is constructed.
NoWidgets == [absent |-> TRUE]

\* Milliseconds per hour and per minute in the ETA arithmetic.
EtaMsPerHour == 3600000
EtaMsPerMinute == 60000
\* Milliseconds per minute in the "last seen" arithmetic.
LastSeenMsPerMinute == 60000

----------------------------------------------------------------------------
(* Inputs: what `urbackupclientctl status` can hand back *)

\* Running processes as the tool reports them.
Processes ==
    { [action |-> "FULL", eta_ms |-> -1,      percent_done |-> -1],
      [action |-> "FULL", eta_ms |-> 7260000, percent_done |-> 42],
      [action |-> "INCR", eta_ms |-> 59999,   percent_done |-> 100],
      [action |-> "IDLE", eta_ms |-> 3600000, percent_done |-> 7] }

RunningProcessesValues ==
    { <<>> } \cup { <<p>> : p \in Processes }
             \cup { << [action |-> "INCR", eta_ms |-> -1, percent_done |-> 0],
                       [action |-> "FULL", eta_ms |-> 60000, percent_done |-> -1] >> }

InternetStatusValues ==
    { "connected_local", "wait_local", "no_server", "connected_inet" }

\* (servers, time_since_last_lan_connection) pairs.
ServersLanSamples ==
    { << << [name |-> "srv1", internet_connection |-> TRUE] >>, 120000 >>,
      << << [name |-> "srv2", internet_connection |-> FALSE],
            [name |-> "srv1", internet_connection |-> TRUE] >>, 59999 >> }

\* Epoch seconds of a last backup: 2024-03-01 00:00:05 UTC.
LastBackupTimes == { 1709251205 }

\* Local UTC offsets (seconds) used by datetime.fromtimestamp.
UtcOffsets == { 0, -18000 }

SnapshotsWithout ==
    { [running_processes |-> rp, servers |-> sl[1], internet_status |-> i,
       time_since_last_lan_connection |-> sl[2]] :
        rp \in RunningProcessesValues, sl \in ServersLanSamples,
        i \in InternetStatusValues }

SnapshotsWith ==
    { [running_processes |-> s.running_processes, servers |-> s.servers,
       internet_status |-> s.internet_status,
       time_since_last_lan_connection |-> s.time_since_last_lan_connection,
       last_backup_time |-> t] :
        s \in SnapshotsWithout, t \in LastBackupTimes }

\* The decoded JSON documents the tool can print (last_backup_time optional).
Snapshots == SnapshotsWithout \cup SnapshotsWith

\* Outcome of subprocess.run(["urbackupclientctl", "status"]): the executable
\* is not found, or it ran and gave a return code and a stdout that is either
\* malformed JSON or a well-formed document (held as its decoded value).
Malformed == [malformed |-> TRUE]

RunResults ==
    { [found |-> FALSE] }
    \cup { [found |-> TRUE, returncode |-> 0, stdout |-> o] :
             o \in Snapshots \cup {Malformed} }
    \cup { [found |-> TRUE, returncode |-> 1, stdout |-> Malformed] }

Platforms == { "linux", "win32", "darwin" }

----------------------------------------------------------------------------
(* StatusInfo: class attributes *)

statuses(key) ==
    CASE key = "FULL" -> "Full file backup running."
      [] key = "INCR" -> "Incremental file backup running."
      [] key = "IDLE" -> "Idle."

status_format(status, progress) == status \o " " \o progress

eta_format(time) == "ETA: " \o time

last_backup_format(date) == "Last backup on " \o date

connect_to_local_format(status) == status \o "onnected to local UrBackup server."

last_seen_format(minutes) ==
    "Local server last seen " \o ToString(minutes) \o " minutes ago."

----------------------------------------------------------------------------
(* datetime.fromtimestamp(t).strftime("%m/%d/%Y %I:%M:%S %p") *)

Pad2(n) == IF n < 10 THEN "0" \o ToString(n) ELSE ToString(n)

\* Proleptic Gregorian date <<year, month, day>> of a day count since 1970-01-01.
CivilFromDays(days) ==
    LET z   == days + 719468
        era == z \div 146097
        doe == z - era * 146097
        yoe == (doe - doe \div 1460 + doe \div 36524 - doe \div 146096) \div 365
        doy == doe - (365 * yoe + yoe \div 4 - yoe \div 100)
        mp  == (5 * doy + 2) \div 153
        d   == doy - (153 * mp + 2) \div 5 + 1
        m   == IF mp < 10 THEN mp + 3 ELSE mp - 9
        y   == yoe + era * 400 + (IF m <= 2 THEN 1 ELSE 0)
    IN  <<y, m, d>>

\* off is the local UTC offset in seconds at that instant.
strftime(t, off) ==
    LET local == t + off
        ymd   == CivilFromDays(local \div 86400)
        sod   == local % 86400
        hour  == sod \div 3600
        hour12 == IF hour % 12 = 0 THEN 12 ELSE hour % 12
    IN  Pad2(ymd[2]) \o "/" \o Pad2(ymd[3]) \o "/" \o ToString(ymd[1]) \o " "
        \o Pad2(hour12) \o ":" \o Pad2((sod % 3600) \div 60) \o ":"
        \o Pad2(sod % 60) \o " " \o (IF hour < 12 THEN "AM" ELSE "PM")

----------------------------------------------------------------------------
(* StatusInfo widget *)

\* QProgressBar's default range; setValue outside it leaves the value alone.
ProgressMinimum == 0
ProgressMaximum == 100

setValue(current, value) ==
    IF value < ProgressMinimum \/ value > ProgressMaximum THEN current ELSE value

\* StatusInfo.__init__: the widget values right after construction.
StatusInfo__init__ ==
    [status_text    |-> status_format(statuses("IDLE"), ""),
     eta_text       |-> "",
     progress_bar   |-> -1,
     last_backup    |-> "",
     servers        |-> <<>>,
     connect_status |-> connect_to_local_format("Not c")]

\* Faulty variant of CurrentStatus: percent is left at -1 while indexing.
CurrentStatus_percent_not_reset(status) ==
    IF Len(status.running_processes) > 0
    THEN LET first == status.running_processes[1]
         IN  [curr_status |-> first.action,
              eta         |-> <<first.eta_ms>>,
              progress    |-> IF first.percent_done = -1
                              THEN "Indexing."
                              ELSE ToString(first.percent_done) \o "% done.",
              percent     |-> first.percent_done]
    ELSE [curr_status |-> "IDLE", eta |-> <<>>, progress |-> "", percent |-> 0]

\* "Current status" block: the locals curr_status, progress, percent and eta
\* (eta is <<>> for Python's None, <<n>> for the integer n).
CurrentStatus(status) ==
    IF Len(status.running_processes) > 0
    THEN LET first == status.running_processes[1]
         IN  [curr_status |-> first.action,
              eta         |-> <<first.eta_ms>>,
              progress    |-> IF first.percent_done = -1
                              THEN "Indexing."
                              ELSE ToString(first.percent_done) \o "% done.",
              percent     |-> IF first.percent_done = -1
                              THEN 0 ELSE first.percent_done]
    ELSE [curr_status |-> "IDLE", eta |-> <<>>, progress |-> "", percent |-> 0]

\* Faulty variant of EtaText: minutes are what is left after the hours.
EtaText_remainder(eta) ==
    IF eta # <<>> /\ eta[1] # -1
    THEN eta_format(ToString(eta[1] \div EtaMsPerHour) \o " hours "
                    \o ToString((eta[1] % EtaMsPerHour) \div EtaMsPerMinute)
                    \o " minutes")
    ELSE ""

EtaText(eta) ==
    IF eta # <<>> /\ eta[1] # -1
    THEN eta_format(ToString(eta[1] \div EtaMsPerHour) \o " hours "
                    \o ToString(eta[1] \div EtaMsPerMinute) \o " minutes")
    ELSE ""

\* The last_backup label after the "last_backup_time" block: it is set only
\* when the key is present.
LastBackupText(current, status, off) ==
    IF "last_backup_time" \in DOMAIN status
    THEN last_backup_format(strftime(status.last_backup_time, off))
    ELSE current

ServerItems(status) ==
    [ i \in 1..Len(status.servers) |->
        status.servers[i].name \o " (Internet: "
        \o (IF status.servers[i].internet_connection THEN "Yes" ELSE "No")
        \o ")" ]

\* Faulty variant of ConnectStatusText: "no_server" is not told apart.
ConnectStatusText_no_server_missed(status) ==
    LET internet_status == status.internet_status
        last_seen == status.time_since_last_lan_connection \div LastSeenMsPerMinute
    IN  IF internet_status = "wait_local"
        THEN "Waiting for local UrBackup server."
        ELSE connect_to_local_format(
                 IF internet_status = "connected_local" THEN "C" ELSE "Not c")
             \o "\n" \o last_seen_format(last_seen)

ConnectStatusText(status) ==
    LET internet_status == status.internet_status
        last_seen == status.time_since_last_lan_connection \div LastSeenMsPerMinute
    IN  IF internet_status = "wait_local"
        THEN "Waiting for local UrBackup server."
        ELSE IF internet_status = "no_server"
        THEN "No servers"
        ELSE connect_to_local_format(
                 IF internet_status = "connected_local" THEN "C" ELSE "Not c")
             \o "\n" \o last_seen_format(last_seen)

\* Faulty variant of StatusInfo_update_status: the None branch leaves the
\* server list as it was.
StatusInfo_update_status_keeps_servers(w, status, off) ==
    IF status = None
    THEN [status_text    |-> "Could not get status!",
          eta_text       |-> "",
          progress_bar   |-> setValue(w.progress_bar, 0),
          last_backup    |-> "",
          servers        |-> w.servers,
          connect_status |-> "Unknown"]
    ELSE LET cur == CurrentStatus(status)
         IN  [status_text    |-> status_format(statuses(cur.curr_status),
                                               cur.progress),
              eta_text       |-> EtaText(cur.eta),
              progress_bar   |-> setValue(w.progress_bar, cur.percent),
              last_backup    |-> LastBackupText(w.last_backup, status, off),
              servers        |-> ServerItems(status),
              connect_status |-> ConnectStatusText(status)]

\* StatusInfo.update_status(status): the widget values after the slot ran on
\* the widget values w.
StatusInfo_update_status(w, status, off) ==
    IF status = None
    THEN [status_text    |-> "Could not get status!",
          eta_text       |-> "",
          progress_bar   |-> setValue(w.progress_bar, 0),
          last_backup    |-> "",
          servers        |-> <<>>,
          connect_status |-> "Unknown"]
    ELSE LET cur == CurrentStatus(status)
         IN  [status_text    |-> status_format(statuses(cur.curr_status),
                                               cur.progress),
              eta_text       |-> EtaText(cur.eta),
              progress_bar   |-> setValue(w.progress_bar, cur.percent),
              last_backup    |-> LastBackupText(w.last_backup, status, off),
              servers        |-> ServerItems(status),
              connect_status |-> ConnectStatusText(status)]

----------------------------------------------------------------------------
(* App: icon selection and polling *)

\* Faulty variant of update_tray: the connection state is tested before the
\* running processes.
update_tray_connection_first(status) ==
    IF status = None
    THEN [tray_icon |-> "not_connected", window_icon |-> "not_connected"]
    ELSE IF status.internet_status = "connected_local"
    THEN [tray_icon |-> "connected", window_icon |-> "connected"]
    ELSE IF Len(status.running_processes) > 0
    THEN [tray_icon |-> "busy", window_icon |-> "busy"]
    ELSE [tray_icon |-> "not_connected", window_icon |-> "not_connected"]

\* App.update_tray(status): the icons given to tray_icon.setIcon and to
\* setWindowIcon.
update_tray(status) ==
    IF status = None
    THEN [tray_icon |-> "not_connected", window_icon |-> "not_connected"]
    ELSE IF Len(status.running_processes) > 0
    THEN [tray_icon |-> "busy", window_icon |-> "busy"]
    ELSE IF status.internet_status = "connected_local"
    THEN [tray_icon |-> "connected", window_icon |-> "connected"]
    ELSE [tray_icon |-> "not_connected", window_icon |-> "not_connected"]

\* App.get_status() on one outcome of subprocess.run: the exception raised
\* ("" when none) and the value returned.
get_status(run) ==
    IF ~run.found
    THEN [raised |-> "FileNotFoundError", value |-> None]
    ELSE IF run.returncode # 0
    THEN [raised |-> "", value |-> None]
    ELSE IF run.stdout = Malformed
    THEN [raised |-> "JSONDecodeError", value |-> None]
    ELSE [raised |-> "", value |-> run.stdout]

----------------------------------------------------------------------------
(* The program state as one record, and the handlers as functions on it *)

State ==
    [pc |-> pc, exit_code |-> exit_code, dialog |-> dialog,
     window_icon |-> window_icon, tray_icon |-> tray_icon,
     closing |-> closing, visible |-> visible, minimized |-> minimized,
     timer_active |-> timer_active, status_info |-> status_info,
     polled |-> polled, tray_seen |-> tray_seen, info_seen |-> info_seen,
     trace |-> trace]

Assign(n) ==
    /\ pc' = n.pc
    /\ exit_code' = n.exit_code
    /\ dialog' = n.dialog
    /\ window_icon' = n.window_icon
    /\ tray_icon' = n.tray_icon
    /\ closing' = n.closing
    /\ visible' = n.visible
    /\ minimized' = n.minimized
    /\ timer_active' = n.timer_active
    /\ status_info' = n.status_info
    /\ polled' = n.polled
    /\ tray_seen' = n.tray_seen
    /\ info_seen' = n.info_seen
    /\ trace' = n.trace

Did(s, effects) == [s EXCEPT !.trace = @ \o effects]

\* Faulty variant of connections: the widget's slot was never connected.
connections_tray_only == << "update_tray" >>

\* The slots connected to the `status` signal, in connection order.
connections == << "update_tray", "StatusInfo.update_status" >>

CallSlot(s, slot, status, off) ==
    IF slot = "update_tray"
    THEN Did([s EXCEPT !.tray_icon = update_tray(status).tray_icon,
                       !.window_icon = update_tray(status).window_icon,
                       !.tray_seen = status],
             << "update_tray" >>)
    ELSE Did([s EXCEPT !.status_info =
                           StatusInfo_update_status(s.status_info, status, off),
                       !.info_seen = status],
             << "StatusInfo.update_status" >>)

\* self.status.emit(status): every connected slot runs, in order, before emit
\* returns (direct connections within one thread).
RECURSIVE emit(_, _, _, _)
emit(s, conns, status, off) ==
    IF conns = <<>> THEN s
    ELSE emit(CallSlot(s, Head(conns), status, off), Tail(conns), status, off)

\* Faulty variant of App_update_status: None is not emitted (the guard that
\* is commented out in the source).
App_update_status_skips_none(s, run, off) ==
    LET r == get_status(run)
        s1 == Did(s, << "get_status" >>)
    IN  IF r.raised # ""
        THEN [raised |-> r.raised, state |-> s1]
        ELSE IF r.value = None
        THEN [raised |-> "", state |-> [s1 EXCEPT !.polled = r.value]]
        ELSE [raised |-> "",
              state  |-> emit(Did([s1 EXCEPT !.polled = r.value], << "emit" >>),
                              connections, r.value, off)]

\* App.update_status(): poll, then emit what the poll returned.  An exception
\* of get_status propagates to the caller before anything is emitted.
App_update_status(s, run, off) ==
    LET r == get_status(run)
        s1 == Did(s, << "get_status" >>)
    IN  IF r.raised # ""
        THEN [raised |-> r.raised, state |-> s1]
        ELSE [raised |-> "",
              state  |-> emit(Did([s1 EXCEPT !.polled = r.value], << "emit" >>),
                              connections, r.value, off)]

\* The interpreter ends on an exception nobody caught: traceback, status 1.
Uncaught(s, exc) ==
    Did([s EXCEPT !.pc = "exited", !.exit_code = 1], << exc, "traceback" >>)

\* QMessageBox.critical(...) followed by sys.exit(1).
Fatal(s, title) ==
    Did([s EXCEPT !.dialog = title, !.pc = "exited", !.exit_code = 1],
        << "QMessageBox.critical", "sys.exit" >>)

\* App.__init__ on a platform and the outcomes of its two polls.
App__init__(s, platform, run1, run2, off) ==
    LET s0 == Did([s EXCEPT !.window_icon = "not_connected", !.trace = <<>>],
                  << "__init__", "setWindowIcon" >>)
    IN  IF platform = "win32"
        THEN Fatal(s0, "Not supported")
        ELSE LET r1 == get_status(run1)
                 s1 == Did(s0, << "get_status" >>)
             IN  IF r1.raised = "FileNotFoundError"
                 THEN Fatal(s1, "UrBackup Error")
                 ELSE IF r1.raised # ""
                 THEN Uncaught(s1, r1.raised)
                 ELSE LET s2 == Did([s1 EXCEPT !.closing = FALSE,
                                               !.tray_icon = "not_connected",
                                               !.status_info = StatusInfo__init__],
                                    << "QSystemTrayIcon", "StatusInfo" >>)
                          u  == App_update_status(s2, run2, off)
                      IN  IF u.raised # ""
                          THEN Uncaught(u.state, u.raised)
                          ELSE Did([u.state EXCEPT !.timer_active = TRUE,
                                                   !.pc = "constructed"],
                                   << "update_timer.start" >>)

\* window.show(); app.exec_()
main(s) ==
    [s EXCEPT !.visible = TRUE, !.pc = "running", !.trace = << "show", "exec_" >>]

\* update_timer.timeout -> App.update_status.  An exception leaving the slot
\* either aborts the process or is printed and dropped, depending on the Qt
\* binding qtpy selected.
timeout(s, run, off, abort) ==
    LET u == App_update_status([s EXCEPT !.trace = << "timeout" >>], run, off)
    IN  IF u.raised = "" THEN u.state
        ELSE IF abort
        THEN Did([u.state EXCEPT !.pc = "exited", !.exit_code = 134],
                 << u.raised, "abort" >>)
        ELSE Did(u.state, << u.raised >>)

\* Faulty variant of closeEvent: the poll timer is not stopped on the way out.
closeEvent_timer_left_running(s, tray_available) ==
    IF s.closing
    THEN Did(s, << "closeEvent", "accept" >>)
    ELSE IF ~tray_available
    THEN Did(s, << "closeEvent", "no_system_tray", "accept" >>)
    ELSE Did([s EXCEPT !.visible = FALSE],
             << "closeEvent", "system_tray", "hide", "ignore" >>)

\* App.closeEvent(event).  isSystemTrayAvailable() is asked only when
\* __closing is false; the last effect is the event's accept() or ignore().
closeEvent(s, tray_available) ==
    IF s.closing
    THEN Did([s EXCEPT !.timer_active = FALSE],
             << "closeEvent", "update_timer.stop", "accept" >>)
    ELSE IF ~tray_available
    THEN Did([s EXCEPT !.timer_active = FALSE],
             << "closeEvent", "no_system_tray", "update_timer.stop", "accept" >>)
    ELSE Did([s EXCEPT !.visible = FALSE],
             << "closeEvent", "system_tray", "hide", "ignore" >>)

\* QWidget.close(): deliver the close event; if it was accepted the window is
\* hidden and, being the last window, the application quits: exec_ returns and
\* the script ends.
close(s, tray_available) ==
    LET c == closeEvent(s, tray_available)
    IN  IF c.trace[Len(c.trace)] = "accept"
        THEN Did([c EXCEPT !.visible = FALSE, !.pc = "exited", !.exit_code = 0],
                 << "quit" >>)
        ELSE c

\* App.close_app(): the tray menu's "Exit".
close_app(s, tray_available) ==
    close(Did([s EXCEPT !.closing = TRUE, !.visible = TRUE, !.trace = <<>>],
              << "close_app", "show" >>),
          tray_available)

\* App.changeEvent(event), called after Qt changed the window state.
changeEvent(s, type, tray_available) ==
    IF type = "WindowStateChange" /\ tray_available /\ s.minimized
    THEN Did([s EXCEPT !.visible = FALSE], << "changeEvent", "hide", "ignore" >>)
    ELSE Did(s, << "changeEvent", "accept" >>)

\* App.open_and_show(): the tray menu's "Open".
open_and_show(s, tray_available) ==
    LET s1 == Did([s EXCEPT !.visible = TRUE], << "open_and_show", "show" >>)
    IN  IF s1.minimized
        THEN changeEvent(Did([s1 EXCEPT !.minimized = FALSE], << "showNormal" >>),
                         "WindowStateChange", tray_available)
        ELSE s1

\* App.tray_activated(reason)
tray_activated(s, reason, tray_available) ==
    IF reason = "Trigger"
    THEN open_and_show(Did(s, << "tray_activated" >>), tray_available)
    ELSE Did(s, << "tray_activated" >>)

----------------------------------------------------------------------------
(* Specification *)

ActivationReasons == { "Trigger", "Context" }
ChangeEventTypes == { "WindowStateChange", "ActivationChange" }

\* UTC offsets that matter for a poll outcome: only a snapshot that carries
\* last_backup_time is formatted as a local date.
OffsetsFor(run) ==
    IF get_status(run).raised = "" /\ get_status(run).value # None
       /\ "last_backup_time" \in DOMAIN get_status(run).value
    THEN UtcOffsets ELSE { 0 }

AbortsFor(run) == IF get_status(run).raised = "" THEN { FALSE } ELSE BOOLEAN

Init ==
    /\ pc = "start"
    /\ exit_code = 0
    /\ dialog = "none"
    /\ window_icon = "absent"
    /\ tray_icon = "absent"
    /\ closing = FALSE
    /\ visible = FALSE
    /\ minimized = FALSE
    /\ timer_active = FALSE
    /\ status_info = NoWidgets
    /\ polled = Unset
    /\ tray_seen = Unset
    /\ info_seen = Unset
    /\ trace = <<>>

Construct ==
    /\ pc = "start"
    /\ \E platform \in Platforms, run1 \in RunResults, run2 \in RunResults :
         \E off \in OffsetsFor(run2) :
            Assign(App__init__(State, platform, run1, run2, off))

Show ==
    /\ pc = "constructed"
    /\ Assign(main(State))

TimerTick ==
    /\ pc = "running"
    /\ timer_active
    /\ \E run \in RunResults :
         \E off \in OffsetsFor(run), abort \in AbortsFor(run) :
            Assign(timeout(State, run, off, abort))

WindowClose ==
    /\ pc = "running"
    /\ visible
    /\ \E tray_available \in BOOLEAN :
         Assign(close([State EXCEPT !.trace = <<>>], tray_available))

TrayExit ==
    /\ pc = "running"
    /\ \E tray_available \in BOOLEAN :
         Assign(close_app(State, tray_available))

TrayOpen ==
    /\ pc = "running"
    /\ \E tray_available \in BOOLEAN :
         Assign(open_and_show([State EXCEPT !.trace = <<>>], tray_available))

TrayActivated ==
    /\ pc = "running"
    /\ \E reason \in ActivationReasons, tray_available \in BOOLEAN :
         Assign(tray_activated([State EXCEPT !.trace = <<>>], reason,
                               tray_available))

\* The user minimizes or restores the visible window, or an unrelated change
\* event arrives.
WindowChange ==
    /\ pc = "running"
    /\ visible
    /\ \E type \in ChangeEventTypes, tray_available \in BOOLEAN :
         Assign(changeEvent(
                    [State EXCEPT !.trace = <<>>,
                                  !.minimized = IF type = "WindowStateChange"
                                                THEN ~@ ELSE @],
                    type, tray_available))

Next ==
    \/ Construct
    \/ Show
    \/ TimerTick
    \/ WindowClose
    \/ TrayExit
    \/ TrayOpen
    \/ TrayActivated
    \/ WindowChange

Spec == Init /\ [][Next]_vars

----------------------------------------------------------------------------
(* Properties *)

Has(effect) == \E i \in 1..Len(trace) : trace[i] = effect

Count(effect) == Cardinality({ i \in 1..Len(trace) : trace[i] = effect })

\* Position of the first occurrence of an effect the trace has.
Index(effect) == CHOOSE i \in 1..Len(trace) :
                    /\ trace[i] = effect
                    /\ \A j \in 1..(i - 1) : trace[j] # effect

IsSnapshot(status) == status # Unset /\ status # None

\* The icon rule as the specification words it: a table over (is None,
\* has a running process, internet_status), read top to bottom.
IconRule(is_none, has_running_process, internet_status) ==
    CASE is_none -> "not_connected"
      [] ~is_none /\ has_running_process -> "busy"
      [] ~is_none /\ ~has_running_process /\ internet_status = "connected_local"
            -> "connected"
      [] OTHER -> "not_connected"

\* C1: once update_tray has run on a status s, the tray icon is the one the
\* ordered rule gives for (s is None, s has a running process,
\* s.internet_status), and the window icon is that same icon.
C1_IconChoice ==
    tray_seen # Unset =>
        /\ tray_icon =
             IF tray_seen = None
             THEN IconRule(TRUE, FALSE, "")
             ELSE IconRule(FALSE, Len(tray_seen.running_processes) > 0,
                           tray_seen.internet_status)
        /\ window_icon = tray_icon

\* A snapshot with a running process and a local connection was delivered:
\* the rule's order decides, and the icon is "busy".
C1_Witness ==
    /\ IsSnapshot(tray_seen)
    /\ Len(tray_seen.running_processes) > 0
    /\ tray_seen.internet_status = "connected_local"
    /\ tray_icon = "busy"
    /\ window_icon = "busy"

\* The poll that ran last returned a value (no exception left get_status).
PollReturned == Has("emit") \/ (Has("get_status") /\ ~Has("FileNotFoundError")
                                                  /\ ~Has("JSONDecodeError"))

\* C2: when a poll yields None, both presenters show the unknown state and
\* nothing is raised: status text "Could not get status!", empty ETA, progress
\* bar 0, empty server list, connection text "Unknown", tray and window icon
\* "not_connected", and the program goes on.
C2_NoneRendersUnknown ==
    polled = None =>
        /\ status_info # NoWidgets
        /\ status_info.status_text = "Could not get status!"
        /\ status_info.eta_text = ""
        /\ status_info.progress_bar = 0
        /\ status_info.servers = <<>>
        /\ status_info.connect_status = "Unknown"
        /\ tray_icon = "not_connected"
        /\ window_icon = "not_connected"
        /\ PollReturned =>
             /\ ~Has("traceback") /\ ~Has("abort")
             /\ pc \in { "constructed", "running" }

\* A timer poll returned None and both slots ran on it.
C2_Witness ==
    /\ polled = None
    /\ trace = << "timeout", "get_status", "emit", "update_tray",
                  "StatusInfo.update_status" >>
    /\ status_info.status_text = "Could not get status!"
    /\ status_info.servers = <<>>

\* The action texts as the specification lists them.
ActionText(action) ==
    CASE action = "FULL" -> "Full file backup running."
      [] action = "INCR" -> "Incremental file backup running."
      [] action = "IDLE" -> "Idle."

\* C7: for a rendered snapshot, the status line is "<action text> <progress
\* text>".  No running process: "Idle. " and bar 0.  Otherwise the action text
\* is that of the first process; percent_done = -1 gives "Indexing." and bar 0,
\* percent_done in 0..100 gives "<percent_done>% done." and bar = percent_done.
C7_StatusLineAndBar ==
    IsSnapshot(info_seen) =>
        IF Len(info_seen.running_processes) = 0
        THEN /\ status_info.status_text = "Idle. "
             /\ status_info.progress_bar = 0
        ELSE LET first == info_seen.running_processes[1]
             IN  /\ first.percent_done = -1 =>
                      /\ status_info.status_text =
                           ActionText(first.action) \o " Indexing."
                      /\ status_info.progress_bar = 0
                 /\ first.percent_done \in 0..100 =>
                      /\ status_info.status_text =
                           ActionText(first.action) \o " "
                           \o ToString(first.percent_done) \o "% done."
                      /\ status_info.progress_bar = first.percent_done

\* A snapshot whose first process is indexing was rendered.
C7_Witness ==
    /\ IsSnapshot(info_seen)
    /\ Len(info_seen.running_processes) > 0
    /\ info_seen.running_processes[1].percent_done = -1
    /\ status_info.status_text = "Full file backup running. Indexing."
    /\ status_info.progress_bar = 0

\* C8: for a rendered snapshot the ETA line is empty when there is no eta_ms
\* (no running process) or it is -1; otherwise it is eta_format applied to
\* "<H> hours <M> minutes" with H = eta_ms // 3600000 and M = eta_ms // 60000,
\* both taken from the total; eta_ms = 7260000 gives "2 hours 121 minutes".
C8_EtaLine ==
    IsSnapshot(info_seen) =>
        IF Len(info_seen.running_processes) = 0
        THEN status_info.eta_text = ""
        ELSE LET eta_ms == info_seen.running_processes[1].eta_ms
             IN  /\ eta_ms = -1 => status_info.eta_text = ""
                 /\ eta_ms # -1 =>
                      status_info.eta_text =
                        "ETA: " \o ToString(eta_ms \div 3600000) \o " hours "
                        \o ToString(eta_ms \div 60000) \o " minutes"
                 /\ eta_ms = 7260000 =>
                      status_info.eta_text = "ETA: 2 hours 121 minutes"

\* The snapshot whose first process has eta_ms = 7260000 was rendered.
C8_Witness ==
    /\ IsSnapshot(info_seen)
    /\ Len(info_seen.running_processes) > 0
    /\ info_seen.running_processes[1].eta_ms = 7260000
    /\ status_info.eta_text = "ETA: 2 hours 121 minutes"

\* C9: for a rendered snapshot the connection text is "Waiting for local
\* UrBackup server." for wait_local, "No servers" for no_server, and otherwise
\* "Connected ..." (connected_local) or "Not connected ..." (anything else)
\* followed on a second line by "Local server last seen <M> minutes ago." with
\* M = time_since_last_lan_connection // 60000.
C9_ConnectionText ==
    IsSnapshot(info_seen) =>
        LET i == info_seen.internet_status
            M == info_seen.time_since_last_lan_connection \div 60000
            seen == "\nLocal server last seen " \o ToString(M) \o " minutes ago."
        IN  status_info.connect_status =
              CASE i = "wait_local" -> "Waiting for local UrBackup server."
                [] i = "no_server" -> "No servers"
                [] i = "connected_local" ->
                     "Connected to local UrBackup server." \o seen
                [] OTHER -> "Not connected to local UrBackup server." \o seen

\* A snapshot with no_server was rendered.
C9_Witness ==
    /\ IsSnapshot(info_seen)
    /\ info_seen.internet_status = "no_server"
    /\ status_info.connect_status = "No servers"

\* The widget values with nothing in them, to render a status from scratch.
BlankWidgets ==
    [status_text |-> "", eta_text |-> "", progress_bar |-> 0, last_backup |-> "",
     servers |-> <<>>, connect_status |-> ""]

\* C3: every displayed value is determined by the most recent status alone:
\* the widget shows what rendering that status from scratch gives; the
\* last-backup text is shown only if that status is a snapshot containing
\* last_backup_time, and the server list holds exactly its servers, in order.
C3_LatestSnapshotAlone ==
    info_seen # Unset =>
        /\ \E off \in UtcOffsets :
              status_info = StatusInfo_update_status(BlankWidgets, info_seen, off)
        /\ status_info.last_backup # "" =>
              /\ info_seen # None
              /\ "last_backup_time" \in DOMAIN info_seen
        /\ info_seen # None =>
              /\ Len(status_info.servers) = Len(info_seen.servers)
              /\ \A i \in 1..Len(info_seen.servers) :
                    status_info.servers[i] =
                      info_seen.servers[i].name \o " (Internet: "
                      \o (IF info_seen.servers[i].internet_connection
                          THEN "Yes" ELSE "No") \o ")"

\* The handler that ran last was a window close request or the tray's Exit.
CloseHandled == Has("closeEvent")

\* C4, state part: a close request that finds __closing false and a system
\* tray available is ignored and only hides the window, the program and the
\* poll timer going on; otherwise it is accepted, with the timer stopped before
\* the accept and the program ended.  "Exit" always ends in an accepted close.
C4_CloseState ==
    /\ CloseHandled =>
         /\ Has("ignore") \/ Has("accept")
         /\ Has("ignore") <=> (~closing /\ Has("system_tray"))
         /\ Has("accept") <=> (closing \/ Has("no_system_tray"))
         /\ Has("ignore") =>
              /\ Has("hide") /\ ~visible
              /\ pc = "running"
              /\ timer_active
              /\ ~Has("update_timer.stop")
         /\ Has("accept") =>
              /\ Has("update_timer.stop")
              /\ Index("update_timer.stop") < Index("accept")
              /\ ~timer_active
              /\ pc = "exited" /\ exit_code = 0
    /\ Has("close_app") => (closing /\ CloseHandled /\ Has("accept"))
    /\ closing => Has("close_app")

\* C4: the state part in every state, and no step at all (so no poll) once a
\* close has been accepted.
C4_CloseRequests ==
    /\ []C4_CloseState
    /\ [][(CloseHandled /\ Has("accept")) => FALSE]_vars

\* A window close request found no system tray and was accepted.
C4_Witness ==
    /\ CloseHandled
    /\ Has("no_system_tray")
    /\ ~closing
    /\ Has("accept")
    /\ ~timer_active
    /\ pc = "exited"

\* The handler that ran last was a timer tick whose poll returned None.
TimerPollFailed ==
    /\ Len(trace) > 0 /\ trace[1] = "timeout"
    /\ PollReturned
    /\ polled = None

\* C5, state part: after a timer poll that returned None the program is still
\* running with the unknown state on display, the timer is active and the
\* next tick can fire.
C5_FailedPollState ==
    TimerPollFailed =>
        /\ pc = "running"
        /\ timer_active
        /\ status_info.status_text = "Could not get status!"
        /\ status_info.connect_status = "Unknown"
        /\ tray_icon = "not_connected"
        /\ ENABLED TimerTick

\* C5: the state part in every state; and a timer poll that returns a snapshot
\* while the unknown state is on display renders that snapshot, whole.
C5_PollFailureNotFatal ==
    /\ []C5_FailedPollState
    /\ [][ ( /\ polled = None
             /\ Len(trace') > 0 /\ trace'[1] = "timeout"
             /\ IsSnapshot(polled') )
           => /\ info_seen' = polled'
              /\ \E off \in UtcOffsets :
                    status_info' =
                      StatusInfo_update_status(BlankWidgets, polled', off)
              /\ tray_icon' = update_tray(polled').tray_icon
              /\ pc' = "running" /\ timer_active' ]_vars

\* A timer poll returned None, and the program goes on with the timer active.
C5_Witness ==
    /\ TimerPollFailed
    /\ pc = "running"
    /\ timer_active
    /\ status_info.status_text = "Could not get status!"

\* C6: whenever the program ends fatally (a nonzero exit status) over an
\* unsupported platform or a missing control tool, it does so inside
\* App.__init__, after a modal dialog, with exit status 1, and before the tray
\* icon is created and the poll timer is started.
C6_FatalOnlyAtStartup ==
    (/\ pc = "exited"
     /\ exit_code # 0
     /\ dialog # "none" \/ Has("FileNotFoundError")) =>
        /\ Len(trace) > 0 /\ trace[1] = "__init__"
        /\ dialog \in { "Not supported", "UrBackup Error" }
        /\ Has("QMessageBox.critical") /\ Has("sys.exit")
        /\ Index("QMessageBox.critical") < Index("sys.exit")
        /\ exit_code = 1
        /\ tray_icon = "absent"
        /\ ~timer_active

====
